---- MODULE Spec2Model ----
(***************************************************************************)
(* Barcode clustering and consensus calling of paired-end reads.           *)
(*                                                                         *)
(* Three pipeline variants are modelled side by side:                      *)
(*   "pairs"  - readClusterPairs.py    (in-memory store, plurality vote,   *)
(*              apply_async workers sharing counter, lock and results)     *)
(*   "hdf"    - read_cluster_hdf.py    (out-of-core store sharded by       *)
(*              barcode prefix, Bayesian vote, map_async per shard)        *)
(*   "double" - double_index_cluster.py (double index, in-memory store,    *)
(*              imap_unordered, records written by the parent)             *)
(*                                                                         *)
(* A sequence line is a sequence of one-letter strings, a quality line a   *)
(* sequence of byte values (ord of each character), an identifier line a   *)
(* sequence of its space-separated tokens.                                 *)
(***************************************************************************)
EXTENDS Integers, Sequences, FiniteSets, TLC

VARIABLES
    variant,        \* which script runs
    cfg,            \* its command line options
    input,          \* the two input files: their pairs, the surplus of the longer
    pos,            \* number of record pairs taken from the pair reader
    pc,             \* position of the parent process
    error,          \* exception that ended the run, "none" while there is none
    barcodeDict,    \* in-memory store: key -> seqRecord          (pairs, double)
    h5file,         \* out-of-core store: barcode -> written rows (hdf)
    shard,          \* prefix group being processed               (hdf)
    tasks,          \* tasks handed to the worker pool
    counter,        \* shared output counter (Manager().Value)
    lock,           \* holder of Manager().Lock(), 0 when free    (pairs)
    results,        \* records collected from the workers
    opened,         \* TRUE once the output files have been opened for writing
    out1, out2,     \* content of the two output files
    outClusterCount,\* count of written record pairs kept by the parent
    hist,           \* observations of the run kept for the properties
    probe,          \* argument handed to a function applied on its own
    answer          \* what that function returned

vars == <<variant, cfg, input, pos, pc, error, barcodeDict, h5file, shard,
          tasks, counter, lock, results, opened, out1, out2, outClusterCount,
          hist, probe, answer>>

----------------------------------------------------------------------------
(* Bounds of the model *)

\* most record pairs in an input file
MaxPairs == 3
\* largest worker pool (-t)
MaxThreads == 2
\* largest minimum read count (-m)
MaxMinReadCount == 1
\* most record pairs of one barcode in the store-capacity runs
MaxInserts == 31

(* Program constants *)

\* quality offset of the fastq format
QualOffset == 33
minQ == 33
maxQ == 73
\* barcode prefix length that selects the shard
prefix_length == 4
\* rows of a freshly created table, and the most it may be resized to
TableRows == 30
TableMaxRows == 100

(* Exceptions that end a run or a task *)

\* assert idLeft.split(' ')[0] == idRight.split(' ')[0], 'Wrongly splitted files!!'
ErrPairing == "AssertionError: Wrongly splitted files"
\* list(0) in hammingDistance when the constant is empty
ErrHammingType == "TypeError: hammingDistance"
\* scipy hamming() on sequences of different lengths
ErrHammingLength == "ValueError: hammingDistance"
\* h5file[prefix] for a prefix that is no group of the file
ErrNoGroup == "KeyError: prefix group"
\* table[i,:] = ... with i beyond the rows of the table
ErrTableFull == "ValueError: table index out of range"
\* float(1)/constant_length with an empty constant
ErrZeroDivision == "ZeroDivisionError: hamming threshold"
\* bases, quals = zip(*[]) with no column to call
ErrNoColumn == "ValueError: concensusSeq"
\* seq[pos] beyond the end of a member
ErrShortMember == "IndexError: concensusSeq"
\* return leftRecord, rightRecord without an assignment
ErrUnbound == "UnboundLocalError: leftRecord"
\* sys.exit('No concensus clusters!!')
ErrNoClusters == "SystemExit: No concensus clusters"
\* assert left.split(' ')[0] == right.split(' ')[0], 'Wrong order pairs!!'
ErrOrder == "AssertionError: Wrong order pairs"

----------------------------------------------------------------------------
(* Python sequence helpers *)

Min(a, b) == IF a <= b THEN a ELSE b

\* s[:n]
Take(s, n) == SubSeq(s, 1, Min(n, Len(s)))

\* s[n:]
Drop(s, n) == SubSeq(s, Min(n, Len(s)) + 1, Len(s))

\* s[a:b]
Slice(s, a, b) == Take(Drop(s, a), IF b > a THEN b - a ELSE 0)

\* x in s
In(x, s) == \E i \in 1..Len(s) : s[i] = x

Rep(x, n) == [i \in 1..n |-> x]

RECURSIVE SumSeq(_)
SumSeq(s) == IF s = <<>> THEN 0 ELSE Head(s) + SumSeq(Tail(s))

\* pattern in s, for pattern = base * k
HasRun(s, base, k) ==
    \E i \in 1..(Len(s) - k + 1) : \A j \in 0..(k - 1) : s[i + j] = base

\* any(pattern in s for pattern in [A*k, C*k, T*k, G*k])
HasHomopolymer(s, k) == \E b \in {"A", "C", "T", "G"} : HasRun(s, b, k)

\* id.split(' ')[0]
FirstToken(id) == Head(id)

\* order of one-letter strings, as numpy.unique and the HDF5 key iteration sort them
BaseRank(b) ==
    CASE b = "A" -> 1 [] b = "C" -> 2 [] b = "G" -> 3 [] b = "N" -> 4
      [] b = "T" -> 5 [] OTHER -> 0

RECURSIVE SeqLess(_, _)
SeqLess(s, t) ==
    IF t = <<>> THEN FALSE
    ELSE IF s = <<>> THEN TRUE
    ELSE IF Head(s) # Head(t) THEN BaseRank(Head(s)) < BaseRank(Head(t))
    ELSE SeqLess(Tail(s), Tail(t))

\* int(np.mean(map(ord, qual[:idxBase])) - 33), for a non-empty slice
BarcodeQualMean(qual, idxBase) ==
    LET q == Take(qual, idxBase)
    IN  (SumSeq(q) - QualOffset * Len(q)) \div Len(q)

----------------------------------------------------------------------------
(* The barcode gate *)

\* a reader that accepts a pair whatever its identifiers are
IdsMatchUnchecked(read1, read2) == FirstToken(read1.id) = FirstToken(read1.id)

\* assert idLeft.split(' ')[0] == idRight.split(' ')[0]
IdsMatch(read1, read2) == FirstToken(read1.id) = FirstToken(read2.id)

\* number of positions where two equal-length sequences differ
Mismatches(a, b) == Cardinality({i \in 1..Len(a) : a[i] # b[i]})

\* scipy's hamming() refuses sequences of different lengths
HammingRaises(expected, region) == Len(expected) # Len(region)


Accept(key, row) == [kind |-> "accept", key |-> key, row |-> row, error |-> "none"]
Reject == [kind |-> "reject", key |-> <<>>, row |-> <<>>, error |-> "none"]
Raise(e) == [kind |-> "raise", key |-> <<>>, row |-> <<>>, error |-> e]

\* a member of a cluster: the payload of one accepted record pair
Row(seqLeft, qualLeft, seqRight, qualRight) ==
    [seqLeft |-> seqLeft, qualLeft |-> qualLeft,
     seqRight |-> seqRight, qualRight |-> qualRight]

\* readClusterPairs.readClustering: the barcode is the first idxBase bases of
\* read 1; the left sequence is cut after the barcode, the left quality is not
GatePairs(read1, read2, c) ==
    IF ~IdsMatch(read1, read2) THEN Raise(ErrPairing)
    ELSE LET barcode == Take(read1.seq, c.idxBase)
             barcodeQualmean == BarcodeQualMean(read1.qual, c.idxBase)
         IN  IF /\ ~In("N", barcode)
                /\ barcodeQualmean > c.barcodeCutOff
                /\ ~HasHomopolymer(barcode, 4)
                /\ \/ /\ ~c.retainN
                      /\ ~In("N", read1.seq)
                      /\ ~In("N", read2.seq)
                   \/ c.retainN
             THEN Accept(barcode,
                         Row(Drop(read1.seq, c.idxBase), read1.qual,
                             read2.seq, read2.qual))
             ELSE Reject

\* read_cluster_hdf.readClustering up to the choice of the table: Python's "and"
\* evaluates hammingDistance only when the checks before it passed;
\* list(constant_region) raises on the 0 that stands for an empty constant
GateHdf(read1, read2, c) ==
    IF ~IdsMatch(read1, read2) THEN Raise(ErrPairing)
    ELSE LET barcode == Take(read1.seq, c.idxBase)
             constant_length == Len(c.constant)
             constant_region ==
                 Slice(read1.seq, c.idxBase, c.idxBase + constant_length)
             barcodeQualmean == BarcodeQualMean(read1.qual, c.idxBase)
             prefix == Take(barcode, prefix_length)
             before == /\ ~In("N", barcode)
                       /\ barcodeQualmean > c.barcodeCutOff
                       /\ ~HasHomopolymer(barcode, 5)
         IN  IF ~before THEN Reject
             ELSE IF constant_length = 0 THEN Raise(ErrHammingType)
             ELSE IF HammingRaises(c.constant, constant_region)
                  THEN Raise(ErrHammingLength)
             ELSE IF /\ 10 * Mismatches(c.constant, constant_region)
                            < 3 * constant_length
                     /\ ~In("N", prefix)
                  THEN Accept(barcode,
                              Row(Drop(read1.seq, c.idxBase + constant_length),
                                  Drop(read1.qual, c.idxBase + constant_length),
                                  read2.seq, read2.qual))
             ELSE Reject

\* double_index_cluster.readClustering: the key joins both barcodes, both
\* constant regions are compared (right first), both reads are cut
GateDouble(read1, read2, c) ==
    IF ~IdsMatch(read1, read2) THEN Raise(ErrPairing)
    ELSE LET usable_left_seq == c.idxBase + Len(c.constant_left)
             usable_right_seq == c.idxBase + Len(c.constant_right)
             barcode_left == Take(read1.seq, c.idxBase)
             barcode_right == Take(read2.seq, c.idxBase)
             constant_left_region == Slice(read1.seq, c.idxBase, usable_left_seq)
             constant_right_region == Slice(read2.seq, c.idxBase, usable_right_seq)
             mean_left == BarcodeQualMean(read1.qual, c.idxBase)
             mean_right == BarcodeQualMean(read2.qual, c.idxBase)
             index == barcode_left \o <<"/">> \o barcode_right
             before == /\ ~In("N", index)
                       /\ Min(mean_right, mean_left) > c.barcodeCutOff
                       /\ ~HasHomopolymer(index, 5)
         IN  IF ~before THEN Reject
             ELSE IF HammingRaises(c.constant_right, constant_right_region)
                  THEN Raise(ErrHammingLength)
             ELSE IF Mismatches(constant_right_region, c.constant_right) > 1
                  THEN Reject
             ELSE IF HammingRaises(c.constant_left, constant_left_region)
                  THEN Raise(ErrHammingLength)
             ELSE IF Mismatches(constant_left_region, c.constant_left) > 1
                  THEN Reject
             ELSE Accept(index,
                         Row(Drop(read1.seq, usable_left_seq),
                             Drop(read1.qual, usable_left_seq),
                             Drop(read2.seq, usable_right_seq),
                             Drop(read2.qual, usable_right_seq)))

----------------------------------------------------------------------------
(* The consensus caller *)

Max(a, b) == IF a >= b THEN a ELSE b

SetMax(S) == CHOOSE x \in S : \A y \in S : y <= x

SetMin(S) == CHOOSE x \in S : \A y \in S : x <= y

\* the bases, and the quality bytes, of the members at one position (1-based)
Column(lines, p) == [i \in 1..Len(lines) |-> lines[i][p]]

CountOf(column, b) == Cardinality({i \in 1..Len(column) : column[i] = b})

\* np.mean(qualities[columnBases == base]) as the pair <<sum, count>>
QualOfBase(columnBases, qualities, b) ==
    LET hit == {i \in 1..Len(columnBases) : columnBases[i] = b}
        RECURSIVE Sum(_)
        Sum(S) == IF S = {} THEN 0
                  ELSE LET i == CHOOSE j \in S : TRUE
                       IN  qualities[i] + Sum(S \ {i})
    IN  <<Sum(hit), Cardinality(hit)>>

\* a vote that a fraction equal to the threshold wins
calculateConcensusBaseVoteAtLeast(seqList, qualList, p, vote) ==
    LET columnBases == Column(seqList, p)
        qualities == Column(qualList, p)
        uniqueBases == {columnBases[i] : i \in 1..Len(columnBases)}
        maxCount == SetMax({CountOf(columnBases, b) : b \in uniqueBases})
        top == CHOOSE b \in uniqueBases :
                   /\ CountOf(columnBases, b) = maxCount
                   /\ \A o \in uniqueBases :
                          CountOf(columnBases, o) = maxCount
                              => BaseRank(b) <= BaseRank(o)
        concensusBase ==
            IF maxCount * vote[2] >= vote[1] * Len(columnBases) THEN top ELSE "N"
        quality == IF concensusBase \in uniqueBases
                   THEN QualOfBase(columnBases, qualities, concensusBase)
                   ELSE <<QualOffset, 1>>
    IN  [base |-> concensusBase, quality |-> quality]

\* readClusterPairs.calculateConcensusBase: the most frequent base (the first in
\* sorted order among equals) when its fraction exceeds
\* voteCutOff = vote[1] / vote[2], else N; quality is the mean over the members
\* that carry the called base, 33 when none does
calculateConcensusBaseVote(seqList, qualList, p, vote) ==
    LET columnBases == Column(seqList, p)
        qualities == Column(qualList, p)
        uniqueBases == {columnBases[i] : i \in 1..Len(columnBases)}
        maxCount == SetMax({CountOf(columnBases, b) : b \in uniqueBases})
        top == CHOOSE b \in uniqueBases :
                   /\ CountOf(columnBases, b) = maxCount
                   /\ \A o \in uniqueBases :
                          CountOf(columnBases, o) = maxCount
                              => BaseRank(b) <= BaseRank(o)
        concensusBase ==
            IF maxCount * vote[2] > vote[1] * Len(columnBases) THEN top ELSE "N"
        quality == IF concensusBase \in uniqueBases
                   THEN QualOfBase(columnBases, qualities, concensusBase)
                   ELSE <<QualOffset, 1>>
    IN  [base |-> concensusBase, quality |-> quality]

\* readClusterPairs.concensusSeq: chr(int(q)) cuts the mean quality to an integer
concensusSeqVote(seqList, qualList, npos, vote) ==
    LET call(p) == calculateConcensusBaseVote(seqList, qualList, p, vote)
    IN  [sequence |-> [p \in 1..npos |-> call(p).base],
         quality |-> [p \in 1..npos |->
                         call(p).quality[1] \div call(p).quality[2]]]

\* 3 * (1 - 10^(-q/10)) / 10^(-q/10): the weight of a member that carries the
\* guessed base against the weight 1 of a member that does not, both taken over
\* the denominator 3 * 10^(q/10).  Exact for the qualities that are multiples
\* of ten, which are the ones the modelled inputs carry.
HitWeight(q) ==
    CASE q \div 10 = 0 -> 0
      [] q \div 10 = 1 -> 27
      [] q \div 10 = 2 -> 297
      [] q \div 10 = 3 -> 2997
      [] OTHER -> 29997

\* read_cluster_hdf.calculatePosterior scaled by the product of the members'
\* denominators, which is the same for the four guessed bases; with no
\* mismatching member the posterior is 1 and every other guess scores 0
calculatePosterior(guessBase, columnBases, qualities) ==
    LET hits == {i \in 1..Len(columnBases) : columnBases[i] = guessBase}
        RECURSIVE Prod(_)
        Prod(S) == IF S = {} THEN 1
                   ELSE LET i == CHOOSE j \in S : TRUE
                        IN  HitWeight(qualities[i]) * Prod(S \ {i})
    IN  IF Cardinality(hits) < Len(columnBases)
        THEN IF hits # {} THEN Prod(hits) ELSE 0
        ELSE 1

acceptable_bases == <<"A", "C", "T", "G">>

\* round(1000 * 10^(k/10))
TenthPower(k) ==
    LET tenth == <<1000, 1259, 1585, 1995, 2512, 3162, 3981, 5012, 6310, 7943>>
        RECURSIVE Pow10(_)
        Pow10(n) == IF n = 0 THEN 1 ELSE 10 * Pow10(n - 1)
    IN  tenth[(k % 10) + 1] * Pow10(k \div 10)

\* int(-10 * log10(1 - w/total) + 33) for 0 < w < total, not above maxQ
PosteriorQuality(w, total) ==
    LET ratio == (1000 * total) \div (total - w)
    IN  QualOffset
          + SetMax({k \in 0..(maxQ - QualOffset) : TenthPower(k) <= ratio})

\* a caller that reports the mean quality of a column without a mismatch
calculateConcensusBaseBayesMeanQ(seqList, qualList, p) ==
    LET columnBases == Column(seqList, p)
        qualities == [i \in 1..Len(qualList) |-> qualList[i][p] - QualOffset]
        posteriors == [g \in 1..4 |->
            calculatePosterior(acceptable_bases[g], columnBases, qualities)]
        total == SumSeq(posteriors)
        best == SetMax({posteriors[g] : g \in 1..4})
        maxLikHood == SetMin({g \in 1..4 : posteriors[g] = best})
    IN  IF total = 0 THEN [base |-> "A", quality |-> maxQ]
        ELSE [base |-> acceptable_bases[maxLikHood],
              quality |-> IF best < total
                          THEN PosteriorQuality(best, total)
                          ELSE QualOffset
                                 + SumSeq(qualities) \div Len(qualities)]

\* read_cluster_hdf.calculateConcensusBase: the first of A, C, T, G with the
\* largest posterior; quality maxQ when the posterior is 1 (or not a number,
\* when the four posteriors sum to 0)
calculateConcensusBaseBayes(seqList, qualList, p) ==
    LET columnBases == Column(seqList, p)
        qualities == [i \in 1..Len(qualList) |-> qualList[i][p] - QualOffset]
        posteriors == [g \in 1..4 |->
            calculatePosterior(acceptable_bases[g], columnBases, qualities)]
        total == SumSeq(posteriors)
        best == SetMax({posteriors[g] : g \in 1..4})
        maxLikHood == SetMin({g \in 1..4 : posteriors[g] = best})
    IN  IF total = 0 THEN [base |-> "A", quality |-> maxQ]
        ELSE [base |-> acceptable_bases[maxLikHood],
              quality |-> IF best < total
                          THEN PosteriorQuality(best, total) ELSE maxQ]

\* quality[quality < minQ] = minQ; quality[quality > maxQ] = maxQ
Clamp(q) == IF q < minQ THEN minQ ELSE IF q > maxQ THEN maxQ ELSE q

\* read_cluster_hdf.concensusSeq
concensusSeqBayes(seqList, qualList, npos) ==
    LET call(p) == calculateConcensusBaseBayes(seqList, qualList, p)
    IN  [sequence |-> [p \in 1..npos |-> call(p).base],
         quality |-> [p \in 1..npos |-> Clamp(call(p).quality)]]

\* seq[pos] or qual[pos] raises IndexError for a member shorter than npos
ShortMember(seqList, qualList, npos) ==
    \E i \in 1..Len(seqList) : Len(seqList[i]) < npos \/ Len(qualList[i]) < npos

Field(rows, f) == [i \in 1..Len(rows) |-> rows[i][f]]

\* np.unique(lengths)[0]: the shortest member
ShortestLen(lines) == SetMin({Len(lines[i]) : i \in 1..Len(lines)})

Called(left, right, n) ==
    [error |-> "none", sequenceLeft |-> left.sequence, qualityLeft |-> left.quality,
     sequenceRight |-> right.sequence, qualityRight |-> right.quality,
     supported |-> n]

Failed(e) ==
    [error |-> e, sequenceLeft |-> <<>>, qualityLeft |-> <<>>,
     sequenceRight |-> <<>>, qualityRight |-> <<>>, supported |-> 0]

\* readClusterPairs.concensusPairs: each side is called over the columns of its
\* shortest member; "bases, quals = zip(*[])" raises ValueError with no column
concensusPairsVote(reads, vote) ==
    LET nLeft == ShortestLen(Field(reads, "seqLeft"))
        nRight == ShortestLen(Field(reads, "seqRight"))
    IN  IF nLeft = 0 \/ nRight = 0 THEN Failed(ErrNoColumn)
        ELSE Called(concensusSeqVote(Field(reads, "seqLeft"),
                                     Field(reads, "qualLeft"), nLeft, vote),
                    concensusSeqVote(Field(reads, "seqRight"),
                                     Field(reads, "qualRight"), nRight, vote),
                    Len(reads))

\* rows the table holds: table[table[:,0] != '']
Occupied(table) == SelectSeq(table, LAMBDA r : r.seqLeft # <<>>)

\* read_cluster_hdf.concensusPairs: both sides are called over
\* range(len(seqListLeft[0])), the columns of the first member's left sequence
concensusPairsHdf(read_cluster_table) ==
    LET rows == Occupied(read_cluster_table)
        npos == Len(rows[1].seqLeft)
    IN  IF \/ ShortMember(Field(rows, "seqLeft"), Field(rows, "qualLeft"), npos)
           \/ ShortMember(Field(rows, "seqRight"), Field(rows, "qualRight"), npos)
        THEN Failed(ErrShortMember)
        ELSE Called(concensusSeqBayes(Field(rows, "seqLeft"),
                                      Field(rows, "qualLeft"), npos),
                    concensusSeqBayes(Field(rows, "seqRight"),
                                      Field(rows, "qualRight"), npos),
                    Len(rows))

\* concensusSeq of the cluster_reads module, which double_index_cluster imports
ClusterReadsConcensusSeq(seqList, qualList, npos) ==
    concensusSeqBayes(seqList, qualList, npos)

\* double_index_cluster.concensusPairs
concensusPairsDouble(reads) ==
    LET nLeft == ShortestLen(Field(reads, "seqLeft"))
        nRight == ShortestLen(Field(reads, "seqRight"))
    IN  IF nLeft = 0 \/ nRight = 0 THEN Failed(ErrNoColumn)
        ELSE Called(ClusterReadsConcensusSeq(Field(reads, "seqLeft"),
                                             Field(reads, "qualLeft"), nLeft),
                    ClusterReadsConcensusSeq(Field(reads, "seqRight"),
                                             Field(reads, "qualRight"), nRight),
                    Len(reads))

----------------------------------------------------------------------------
(* Inputs: option values and the reads the input files are made of *)

Variants == {"pairs", "hdf", "double"}

\* -x: bases of the barcode
IdxBases == {5}

\* -q: barcode quality cutoff
BarcodeCutOffs == {5}

\* -f: vote threshold, numerator and denominator
VoteCutOffs == {<<9, 10>>}

\* -c, -l, -r: the default (no constant region) and a two-base constant
ConstantRegions == {<<>>, <<"G", "A">>}

Options(v) ==
    {[idxBase |-> x, minReadCount |-> m, barcodeCutOff |-> q, threads |-> t,
      retainN |-> n, voteCutOff |-> f,
      constant |-> k, constant_left |-> k, constant_right |-> k] :
        x \in IdxBases, m \in 0..MaxMinReadCount, q \in BarcodeCutOffs,
        t \in 1..MaxThreads,
        n \in (IF v = "pairs" THEN BOOLEAN ELSE {FALSE}),
        f \in VoteCutOffs,
        k \in (IF v = "pairs" THEN {<<>>} ELSE ConstantRegions)}

\* the record pairs the input files are made of: left sequence and quality,
\* right sequence and quality.  The left read is barcode, constant region,
\* payload; so is the right read, which only the double-index variant cuts.
Catalogue ==
    LET bc1 == <<"A", "C", "G", "T", "A">>
        bc2 == <<"A", "C", "G", "T", "C">>
        bc3 == <<"C", "A", "G", "T", "C">>
        ga == <<"G", "A">>
        pair(l, lq, r, rq) == [seq1 |-> l, qual1 |-> lq, seq2 |-> r, qual2 |-> rq]
    IN  << \* 1: barcode ACGTA
           pair(bc1 \o ga \o <<"C", "T">>, Rep(43, 9),
                bc3 \o ga \o <<"A", "G">>, Rep(43, 9)),
           \* 2: barcode ACGTA, another last base on the left
           pair(bc1 \o ga \o <<"C", "A">>, Rep(43, 9),
                bc3 \o ga \o <<"A", "G">>, Rep(43, 9)),
           \* 3: barcode ACGTC, of the same prefix ACGT
           pair(bc2 \o ga \o <<"C", "T">>, Rep(43, 9),
                bc3 \o ga \o <<"A", "G">>, Rep(43, 9)),
           \* 4: barcode CAGTC, of another prefix
           pair(bc3 \o ga \o <<"T", "T">>, Rep(43, 9),
                bc1 \o ga \o <<"A", "C">>, Rep(43, 9)),
           \* 5: barcode ACGTA read with low quality
           pair(bc1 \o ga \o <<"C", "T">>, Rep(35, 5) \o Rep(43, 4),
                bc3 \o ga \o <<"A", "G">>, Rep(43, 9)),
           \* 6: a left read that ends with its barcode
           pair(bc1, Rep(43, 5),
                bc3 \o ga \o <<"A", "G">>, Rep(43, 9)),
           \* 7: barcode ACGTC with a right read of one base
           pair(bc2 \o ga \o <<"C", "T">>, Rep(43, 9),
                <<"A">>, <<43>>) >>

\* the pairs a run is fed with: the single-index in-memory variant has no
\* prefix groups and takes the right read whole
Feed(v) == IF v = "pairs" THEN {1, 2, 3, 5, 6} ELSE 1..Len(Catalogue)

\* records one file holds beyond the last pair: none, or one
Surplus == {0, 1}

\* the n-th records of the two files: identifiers "n 1" and "n 2", or "n 1" and
\* "0 2" when the files are out of step
ReadPair(n, t, sameId) ==
    << [id |-> <<n, 1>>, seq |-> Catalogue[t].seq1, qual |-> Catalogue[t].qual1],
       [id |-> <<IF sameId THEN n ELSE 0, 2>>,
        seq |-> Catalogue[t].seq2, qual |-> Catalogue[t].qual2] >>

----------------------------------------------------------------------------
(* The cluster stores *)

\* barcodeDict.setdefault(key, seqRecord()); barcodeDict[key].addRecord(...):
\* the four parallel lists of a seqRecord are kept as one list of members
addRecord(dict, key, row) ==
    IF key \in DOMAIN dict
    THEN [dict EXCEPT ![key] = Append(@, row)]
    ELSE dict @@ (key :> <<row>>)

\* seqRecord.readCounts(), seqRecord.member_count
readCounts(dict, key) == Len(dict[key])

\* barcode_count[barcode]: next row of the barcode's table
barcode_count(file, barcode) ==
    IF barcode \in DOMAIN file THEN Len(file[barcode]) ELSE 0

\* the rows written to a table; the other rows of its (30, 4) shape are empty
family_size(file, barcode) == Len(Occupied(file[barcode]))

\* the elements of a set of base sequences in sorted order
RECURSIVE SortedSeq(_)
SortedSeq(S) ==
    IF S = {} THEN <<>>
    ELSE LET least == CHOOSE x \in S : \A y \in S : y = x \/ SeqLess(x, y)
         IN  <<least>> \o SortedSeq(S \ {least})

\* h5file.iterkeys(): the prefix groups that hold a table, in name order (a
\* group without tables yields no path, no result and no write)
ShardList == SortedSeq({Take(b, prefix_length) : b \in DOMAIN h5file})

\* group.iterkeys() filtered by family_size > minReadCount
Paths(prefix) ==
    SortedSeq({b \in DOMAIN h5file :
                  /\ Take(b, prefix_length) = prefix
                  /\ family_size(h5file, b) > cfg.minReadCount})

----------------------------------------------------------------------------
(* Output records *)

\* '@cluster_%i %s %i readCluster\n%s\n+\n%s\n' % (counter.value, index, ...)
FormatPairs(count, index, supported, sequence, quality) ==
    [id |-> << <<"@cluster_", count>>, index, supported, "readCluster" >>,
     seq |-> sequence, qual |-> quality]

\* '@cluster_%i_%s %i readCluster\n%s\n+\n%s\n' % (count, index, ...)
FormatHdf(count, index, supported, sequence, quality) ==
    [id |-> << <<"@cluster_", count, index>>, supported, "readCluster" >>,
     seq |-> sequence, qual |-> quality]

\* '@cluster%i_%s' % (output_cluster_count, '%s_%i_readCluster\n%s\n+\n%s\n')
FormatDouble(count, index, member_count, sequence, quality) ==
    [id |-> << <<"@cluster", count, index, member_count, "readCluster">> >>,
     seq |-> sequence, qual |-> quality]

\* a writer that compares nothing
writeFileUnchecked(leftReads, rightReads) ==
    LET n == Min(Len(leftReads), Len(rightReads))
    IN  [left |-> SubSeq(leftReads, 1, n), right |-> SubSeq(rightReads, 1, n),
         error |-> "none"]

\* zip(leftReads, rightReads) written up to the first pair whose identifiers
\* (text before the first space) differ
writeFile(leftReads, rightReads) ==
    LET n == Min(Len(leftReads), Len(rightReads))
        bad == {i \in 1..n :
                   FirstToken(leftReads[i].id) # FirstToken(rightReads[i].id)}
        stop == IF bad = {} THEN n ELSE SetMin(bad) - 1
    IN  [left |-> SubSeq(leftReads, 1, stop), right |-> SubSeq(rightReads, 1, stop),
         error |-> IF bad = {} THEN "none" ELSE ErrOrder]

Lefts(pairs) == [i \in 1..Len(pairs) |-> pairs[i][1]]

Rights(pairs) == [i \in 1..Len(pairs) |-> pairs[i][2]]

----------------------------------------------------------------------------
(* The run *)

NoCall == Failed("none")

NoRecord == <<>>

Task(key) ==
    [key |-> key, pc |-> "queued", call |-> NoCall, tmp |-> 0, rec |-> NoRecord,
     error |-> "none"]

Finished(t) == tasks[t].pc \in {"done", "raised"}

\* tasks a worker of the pool is busy with
Running == {t \in 1..Len(tasks) : tasks[t].pc \notin {"queued", "done", "raised"}}

\* a worker of Pool(threads) is free to take a task from the queue
WorkerFree == Cardinality(Running) < cfg.threads

\* a reader that hands over to the pool after its first pair
ReaderExhaustedAfterFirst == pos >= 1

\* zip/izip of the two record iterators ends when the shorter file ends
ReaderExhausted == pos = input.npairs

\* no function is applied on its own during a run
NoProbe == <<>>

NoAnswer == <<>>

\* the state in which a run starts, whatever its options and inputs
Fresh ==
    /\ pos = 0
    /\ pc = "start"
    /\ error = "none"
    /\ barcodeDict = <<>>
    /\ h5file = <<>>
    /\ shard = 0
    /\ tasks = <<>>
    /\ counter = 0
    /\ lock = 0
    /\ results = <<>>
    /\ opened = FALSE
    /\ out1 = <<>>
    /\ out2 = <<>>
    /\ outClusterCount = 0
    /\ hist = [mismatch |-> 0, computed |-> 0, called |-> 0, emitted |-> <<>>]

Init ==
    /\ variant \in Variants
    /\ cfg \in Options(variant)
    /\ input \in [npairs : 0..MaxPairs, feed : {Feed(variant)},
                  surplus : Surplus]
    /\ probe = NoProbe
    /\ answer = NoAnswer
    /\ Fresh

\* runs of the out-of-core variant on files whose accepted pairs all carry one
\* barcode (pairs 1 and 5 of the catalogue: accepted, and rejected for quality)
InitStore ==
    /\ variant = "hdf"
    /\ cfg \in {o \in Options("hdf") : o.constant # <<>>}
    /\ input \in [npairs : 0..MaxInserts, feed : {{1, 5}}, surplus : {0}]
    /\ probe = NoProbe
    /\ answer = NoAnswer
    /\ Fresh

\* entry of clusteringAndJoinFiles / clustering: the empty store; the
\* double-index variant divides by the lengths of its constant regions
StartRun ==
    /\ pc = "start"
    /\ IF variant = "double"
          /\ (Len(cfg.constant_left) = 0 \/ Len(cfg.constant_right) = 0)
       THEN pc' = "aborted" /\ error' = ErrZeroDivision
       ELSE pc' = "read" /\ error' = error
    /\ UNCHANGED <<probe, answer, variant, cfg, input, pos, barcodeDict, h5file, shard, tasks,
                   counter, lock, results, opened, out1, out2, outClusterCount,
                   hist>>

\* what every readClustering does with the pair handed to it
Gated(pair, g) ==
    /\ pos' = pos + 1
    /\ hist' = [hist EXCEPT !.mismatch =
                   IF @ = 0 /\ FirstToken(pair[1].id) # FirstToken(pair[2].id)
                   THEN pos + 1 ELSE @]
    /\ UNCHANGED <<probe, answer, variant, cfg, input, shard, tasks, counter, lock, results,
                   opened, out1, out2, outClusterCount>>

readClusteringPairs ==
    /\ variant = "pairs"
    /\ pc = "read"
    /\ ~ReaderExhausted
    /\ \E t \in input.feed, sameId \in BOOLEAN :
          LET pair == ReadPair(pos + 1, t, sameId)
              g == GatePairs(pair[1], pair[2], cfg)
          IN  /\ Gated(pair, g)
              /\ IF g.kind = "raise"
                 THEN /\ pc' = "aborted"
                      /\ error' = g.error
                      /\ UNCHANGED barcodeDict
                 ELSE /\ UNCHANGED <<pc, error>>
                      /\ barcodeDict' = IF g.kind = "accept"
                                        THEN addRecord(barcodeDict, g.key, g.row)
                                        ELSE barcodeDict
    /\ UNCHANGED h5file

\* the table of an accepted pair: h5file[prefix][barcode], created with 30 rows
\* when missing; row barcode_count[barcode] is written, and the table is never
\* resized
StoreHdf(file, g) ==
    IF Len(Take(g.key, prefix_length)) < prefix_length
    THEN [error |-> ErrNoGroup, file |-> file]
    ELSE IF barcode_count(file, g.key) >= TableRows
    THEN [error |-> ErrTableFull, file |-> file]
    ELSE [error |-> "none", file |-> addRecord(file, g.key, g.row)]

readClusteringHdf ==
    /\ variant = "hdf"
    /\ pc = "read"
    /\ ~ReaderExhausted
    /\ \E t \in input.feed, sameId \in BOOLEAN :
          LET pair == ReadPair(pos + 1, t, sameId)
              g == GateHdf(pair[1], pair[2], cfg)
              stored == StoreHdf(h5file, g)
          IN  /\ Gated(pair, g)
              /\ IF g.kind = "raise"
                 THEN /\ pc' = "aborted"
                      /\ error' = g.error
                      /\ UNCHANGED h5file
                 ELSE IF g.kind = "accept" /\ stored.error # "none"
                 THEN /\ pc' = "aborted"
                      /\ error' = stored.error
                      /\ UNCHANGED h5file
                 ELSE /\ UNCHANGED <<pc, error>>
                      /\ h5file' = IF g.kind = "accept" THEN stored.file
                                   ELSE h5file
    /\ UNCHANGED barcodeDict

readClusteringDouble ==
    /\ variant = "double"
    /\ pc = "read"
    /\ ~ReaderExhausted
    /\ \E t \in input.feed, sameId \in BOOLEAN :
          LET pair == ReadPair(pos + 1, t, sameId)
              g == GateDouble(pair[1], pair[2], cfg)
          IN  /\ Gated(pair, g)
              /\ IF g.kind = "raise"
                 THEN /\ pc' = "aborted"
                      /\ error' = g.error
                      /\ UNCHANGED barcodeDict
                 ELSE /\ UNCHANGED <<pc, error>>
                      /\ barcodeDict' = IF g.kind = "accept"
                                        THEN addRecord(barcodeDict, g.key, g.row)
                                        ELSE barcodeDict
    /\ UNCHANGED h5file

\* barcodeDict.keys() / iteritems(): the clusters in an order the hash table
\* decides
KeyOrders ==
    {o \in [1..Cardinality(DOMAIN barcodeDict) -> DOMAIN barcodeDict] :
        \A i, j \in DOMAIN o : i # j => o[i] # o[j]}

\* readClusterPairs: after the last pair, one apply_async per cluster
dispatchPairs ==
    /\ variant = "pairs"
    /\ pc = "read"
    /\ ReaderExhausted
    /\ \E o \in KeyOrders : tasks' = [i \in DOMAIN o |-> Task(o[i])]
    /\ counter' = 0
    /\ lock' = 0
    /\ results' = <<>>
    /\ pc' = "pool"
    /\ UNCHANGED <<probe, answer, variant, cfg, input, pos, error, barcodeDict, h5file, shard,
                   opened, out1, out2, outClusterCount, hist>>

\* double_index_cluster: after the last pair, imap_unordered over the clusters,
\* then both output files are opened for writing
dispatchDouble ==
    /\ variant = "double"
    /\ pc = "read"
    /\ ReaderExhausted
    /\ \E o \in KeyOrders : tasks' = [i \in DOMAIN o |-> Task(o[i])]
    /\ results' = <<>>
    /\ opened' = TRUE
    /\ out1' = <<>>
    /\ out2' = <<>>
    /\ outClusterCount' = 0
    /\ pc' = "pool"
    /\ UNCHANGED <<probe, answer, variant, cfg, input, pos, error, barcodeDict, h5file, shard,
                   counter, lock, hist>>

\* read_cluster_hdf: after the last pair the file is reopened and the counter
\* created
endOfInputHdf ==
    /\ variant = "hdf"
    /\ pc = "read"
    /\ ReaderExhausted
    /\ counter' = 0
    /\ shard' = 1
    /\ pc' = "shard"
    /\ UNCHANGED <<probe, answer, variant, cfg, input, pos, error, barcodeDict, h5file, tasks,
                   lock, results, opened, out1, out2, outClusterCount, hist>>

----------------------------------------------------------------------------
(* The worker pool *)

\* the pool hands out the queued tasks in order
NextInQueue(t) ==
    /\ t \in 1..Len(tasks)
    /\ tasks[t].pc = "queued"
    /\ \A u \in 1..(t - 1) : tasks[u].pc # "queued"
    /\ WorkerFree

\* the condition under which readClusterPairs.errorFreeReads emits a record
Retained(call, retainN) ==
    \/ /\ ~retainN
       /\ ~In("N", call.sequenceRight)
       /\ ~In("N", call.sequenceLeft)
    \/ /\ retainN
       /\ {call.sequenceLeft[i] : i \in 1..Len(call.sequenceLeft)} # {"N"}

\* strict comparison of the cluster size with -m
EnoughReads(size, minReadCount) == size > minReadCount

\* readClusterPairs.errorFreeReads up to lock.acquire(): the size check, the
\* consensus of both sides and the check for N
computePairs(t) ==
    /\ variant = "pairs"
    /\ pc = "pool"
    /\ NextInQueue(t)
    /\ LET key == tasks[t].key
           enough == EnoughReads(readCounts(barcodeDict, key), cfg.minReadCount)
           call == concensusPairsVote(barcodeDict[key], cfg.voteCutOff)
       IN  /\ tasks' = [tasks EXCEPT ![t] =
                 IF ~enough THEN [@ EXCEPT !.pc = "done"]
                 ELSE IF call.error # "none"
                      THEN [@ EXCEPT !.pc = "raised", !.error = call.error]
                 ELSE IF Retained(call, cfg.retainN)
                      THEN [@ EXCEPT !.pc = "acquire", !.call = call]
                 ELSE [@ EXCEPT !.pc = "done", !.call = call]]
           /\ hist' = [hist EXCEPT
                 !.computed = IF enough THEN @ + 1 ELSE @,
                 !.called = IF tasks'[t].pc = "acquire" THEN @ + 1 ELSE @]
    /\ UNCHANGED <<probe, answer, variant, cfg, input, pos, pc, error, barcodeDict, h5file,
                   shard, counter, lock, results, opened, out1, out2,
                   outClusterCount>>

\* lock.acquire(), counter.value += 1 and the two records formatted from
\* counter.value: the lock is taken and the counter read and written under it
incrementAndFormat(t) ==
    /\ pc = "pool"
    /\ t \in 1..Len(tasks)
    /\ tasks[t].pc = "acquire"
    /\ lock = 0
    /\ lock' = t
    /\ counter' = counter + 1
    /\ LET c == tasks[t].call
       IN  tasks' = [tasks EXCEPT ![t].pc = "release", ![t].rec =
               << FormatPairs(counter', tasks[t].key, c.supported,
                              c.sequenceLeft, c.qualityLeft),
                  FormatPairs(counter', tasks[t].key, c.supported,
                              c.sequenceRight, c.qualityRight) >>]
    /\ UNCHANGED <<probe, answer, variant, cfg, input, pos, pc, error, barcodeDict, h5file,
                   shard, results, opened, out1, out2, outClusterCount, hist>>

\* lock.release()
releaseLock(t) ==
    /\ pc = "pool"
    /\ t \in 1..Len(tasks)
    /\ tasks[t].pc = "release"
    /\ lock = t
    /\ lock' = 0
    /\ tasks' = [tasks EXCEPT ![t].pc = "append"]
    /\ UNCHANGED <<probe, answer, variant, cfg, input, pos, pc, error, barcodeDict, h5file,
                   shard, counter, results, opened, out1, out2, outClusterCount,
                   hist>>

\* results.append((leftRecord, rightRecord)), after the lock is released
appendResult(t) ==
    /\ pc = "pool"
    /\ t \in 1..Len(tasks)
    /\ tasks[t].pc = "append"
    /\ results' = Append(results, tasks[t].rec)
    /\ tasks' = [tasks EXCEPT ![t].pc = "done"]
    /\ hist' = [hist EXCEPT !.emitted = Append(@, tasks[t].rec)]
    /\ UNCHANGED <<probe, answer, variant, cfg, input, pos, pc, error, barcodeDict, h5file,
                   shard, counter, lock, opened, out1, out2, outClusterCount>>

\* pool.join(), then sys.exit with no result, else writeFile
joinAndWritePairs ==
    /\ variant = "pairs"
    /\ pc = "pool"
    /\ \A t \in 1..Len(tasks) : Finished(t)
    /\ IF Len(results) = 0
       THEN /\ pc' = "aborted"
            /\ error' = ErrNoClusters
            /\ UNCHANGED <<opened, out1, out2, outClusterCount>>
       ELSE LET w == writeFile(Lefts(results), Rights(results))
            IN  /\ opened' = TRUE
                /\ out1' = w.left
                /\ out2' = w.right
                /\ outClusterCount' = Len(Lefts(results))
                /\ pc' = IF w.error = "none" THEN "done" ELSE "aborted"
                /\ error' = w.error
    /\ UNCHANGED <<probe, answer, variant, cfg, input, pos, barcodeDict, h5file, shard, tasks,
                   counter, lock, results, hist>>

\* read_cluster_hdf.clustering, top of the loop over the prefix groups: the
\* paths of the group's clusters above the minimum count go to map_async;
\* after the last group clustering returns
dispatchShard ==
    /\ variant = "hdf"
    /\ pc = "shard"
    /\ IF shard <= Len(ShardList)
       THEN /\ tasks' = LET paths == Paths(ShardList[shard])
                        IN  [i \in 1..Len(paths) |-> Task(paths[i])]
            /\ pc' = "pool"
       ELSE /\ tasks' = <<>>
            /\ pc' = "done"
    /\ UNCHANGED <<probe, answer, variant, cfg, input, pos, error, barcodeDict, h5file, shard,
                   counter, lock, results, opened, out1, out2, outClusterCount,
                   hist>>

\* read_cluster_hdf.errorFreeReads up to the counter: the table is read and
\* the consensus of both sides called
computeHdf(t) ==
    /\ variant = "hdf"
    /\ pc = "pool"
    /\ NextInQueue(t)
    /\ LET call == concensusPairsHdf(h5file[tasks[t].key])
       IN  tasks' = [tasks EXCEPT ![t] =
               IF call.error # "none"
               THEN [@ EXCEPT !.pc = "raised", !.error = call.error]
               ELSE [@ EXCEPT !.pc = "get", !.call = call]]
    /\ hist' = [hist EXCEPT
          !.computed = @ + 1,
          !.called = IF tasks'[t].pc = "get" THEN @ + 1 ELSE @]
    /\ UNCHANGED <<probe, answer, variant, cfg, input, pos, pc, error, barcodeDict, h5file,
                   shard, counter, lock, results, opened, out1, out2,
                   outClusterCount>>

\* counter.value += 1, first half: the proxy reads the value
counterGet(t) ==
    /\ pc = "pool"
    /\ t \in 1..Len(tasks)
    /\ tasks[t].pc = "get"
    /\ tasks' = [tasks EXCEPT ![t].pc = "set", ![t].tmp = counter]
    /\ UNCHANGED <<probe, answer, variant, cfg, input, pos, pc, error, barcodeDict, h5file,
                   shard, counter, lock, results, opened, out1, out2,
                   outClusterCount, hist>>

\* counter.value += 1, second half: the proxy writes the value read plus one
counterSet(t) ==
    /\ pc = "pool"
    /\ t \in 1..Len(tasks)
    /\ tasks[t].pc = "set"
    /\ counter' = tasks[t].tmp + 1
    /\ tasks' = [tasks EXCEPT ![t].pc = "read"]
    /\ UNCHANGED <<probe, answer, variant, cfg, input, pos, pc, error, barcodeDict, h5file,
                   shard, lock, results, opened, out1, out2, outClusterCount,
                   hist>>

\* count = counter.value, and the two records formatted from count
counterRead(t) ==
    /\ pc = "pool"
    /\ t \in 1..Len(tasks)
    /\ tasks[t].pc = "read"
    /\ LET c == tasks[t].call
           rec == << FormatHdf(counter, tasks[t].key, c.supported,
                               c.sequenceLeft, c.qualityLeft),
                     FormatHdf(counter, tasks[t].key, c.supported,
                               c.sequenceRight, c.qualityRight) >>
       IN  /\ tasks' = [tasks EXCEPT ![t].pc = "done", ![t].rec = rec]
           /\ hist' = [hist EXCEPT !.emitted = Append(@, rec)]
    /\ UNCHANGED <<probe, answer, variant, cfg, input, pos, pc, error, barcodeDict, h5file,
                   shard, counter, lock, results, opened, out1, out2,
                   outClusterCount>>

\* processes.get() re-raises in the parent what a task raised
getRaises ==
    /\ variant = "hdf"
    /\ pc = "pool"
    /\ \E t \in 1..Len(tasks) :
          /\ tasks[t].pc = "raised"
          /\ error' = tasks[t].error
    /\ pc' = "aborted"
    /\ UNCHANGED <<probe, answer, variant, cfg, input, pos, barcodeDict, h5file, shard, tasks,
                   counter, lock, results, opened, out1, out2, outClusterCount,
                   hist>>

\* how the output files are opened for a shard with results
OpenMode == "wb"

\* content of a file after open(mode) and the writes
Written(before, mode, records) ==
    IF mode = "wb" THEN records ELSE before \o records

\* processes.get() with every task done, then the shard's records are written
\* to the output files, opened anew, and the loop goes to the next group
collectShard ==
    /\ variant = "hdf"
    /\ pc = "pool"
    /\ \A t \in 1..Len(tasks) : tasks[t].pc = "done"
    /\ results' = [t \in 1..Len(tasks) |-> tasks[t].rec]
    /\ IF Len(results') > 0
       THEN LET w == writeFile(Lefts(results'), Rights(results'))
            IN  /\ opened' = TRUE
                /\ out1' = Written(out1, OpenMode, w.left)
                /\ out2' = Written(out2, OpenMode, w.right)
                /\ outClusterCount' = outClusterCount + Len(w.left)
                /\ pc' = IF w.error = "none" THEN "shard" ELSE "aborted"
                /\ error' = w.error
       ELSE /\ pc' = "shard"
            /\ UNCHANGED <<error, opened, out1, out2, outClusterCount>>
    /\ shard' = shard + 1
    /\ tasks' = <<>>
    /\ UNCHANGED <<probe, answer, variant, cfg, input, pos, barcodeDict, h5file, counter, lock,
                   hist>>

\* double_index_cluster.errorFreeReads, which assigns its records only for a
\* cluster above the minimum count; the pool queues what it returns or raises
runDouble(t) ==
    /\ variant = "double"
    /\ pc = "pool"
    /\ NextInQueue(t)
    /\ LET key == tasks[t].key
           member_count == readCounts(barcodeDict, key)
           enough == EnoughReads(member_count, cfg.minReadCount)
           call == concensusPairsDouble(barcodeDict[key])
           e == IF ~enough THEN ErrUnbound ELSE call.error
           rec == << FormatDouble(0, key, member_count,
                                  call.sequenceLeft, call.qualityLeft),
                     FormatDouble(0, key, member_count,
                                  call.sequenceRight, call.qualityRight) >>
       IN  /\ tasks' = [tasks EXCEPT ![t] =
                 IF e # "none" THEN [@ EXCEPT !.pc = "raised", !.error = e]
                 ELSE [@ EXCEPT !.pc = "done", !.call = call, !.rec = rec]]
           /\ results' = Append(results,
                 [error |-> e, rec |-> IF e # "none" THEN NoRecord ELSE rec])
           /\ hist' = [hist EXCEPT
                 !.computed = IF enough THEN @ + 1 ELSE @,
                 !.called = IF e # "none" THEN @ ELSE @ + 1,
                 !.emitted = IF e # "none" THEN @ ELSE Append(@, rec)]
    /\ UNCHANGED <<probe, answer, variant, cfg, input, pos, pc, error, barcodeDict, h5file,
                   shard, counter, lock, opened, out1, out2, outClusterCount>>

\* one round of "for p in processes": the next finished task is taken; what it
\* raised is raised here, what it returned is written under the next output
\* number
consumeDouble ==
    /\ variant = "double"
    /\ pc = "pool"
    /\ results # <<>>
    /\ LET p == Head(results)
       IN  IF p.error # "none"
           THEN /\ pc' = "aborted"
                /\ error' = p.error
                /\ UNCHANGED <<out1, out2, outClusterCount>>
           ELSE /\ out1' = Append(out1,
                       [p.rec[1] EXCEPT !.id[1][2] = outClusterCount])
                /\ out2' = Append(out2,
                       [p.rec[2] EXCEPT !.id[1][2] = outClusterCount])
                /\ outClusterCount' = outClusterCount + 1
                /\ UNCHANGED <<pc, error>>
    /\ results' = Tail(results)
    /\ UNCHANGED <<probe, answer, variant, cfg, input, pos, barcodeDict, h5file, shard, tasks,
                   counter, lock, opened, hist>>

\* the iterator of the results ends; pool.close(), pool.join()
finishDouble ==
    /\ variant = "double"
    /\ pc = "pool"
    /\ results = <<>>
    /\ \A t \in 1..Len(tasks) : Finished(t)
    /\ pc' = "done"
    /\ UNCHANGED <<probe, answer, variant, cfg, input, pos, error, barcodeDict, h5file, shard,
                   tasks, counter, lock, results, opened, out1, out2,
                   outClusterCount, hist>>

Next ==
    \/ StartRun
    \/ readClusteringPairs
    \/ readClusteringHdf
    \/ readClusteringDouble
    \/ dispatchPairs
    \/ dispatchDouble
    \/ endOfInputHdf
    \/ dispatchShard
    \/ joinAndWritePairs
    \/ getRaises
    \/ collectShard
    \/ consumeDouble
    \/ finishDouble
    \/ \E t \in 1..MaxPairs :
          \/ computePairs(t)
          \/ incrementAndFormat(t)
          \/ releaseLock(t)
          \/ appendResult(t)
          \/ computeHdf(t)
          \/ counterGet(t)
          \/ counterSet(t)
          \/ counterRead(t)
          \/ runDouble(t)

Spec == Init /\ [][Next]_vars

\* the accumulation phase alone
NextStore ==
    \/ StartRun
    \/ readClusteringHdf
    \/ endOfInputHdf

SpecStore == InitStore /\ [][NextStore]_vars

----------------------------------------------------------------------------
(* The barcode gate applied to one record pair *)

\* barcodes of idxBase bases: plain, with a run of four, with a run of five,
\* with an unread base
GateBarcodes ==
    {<<"A", "C", "G", "T", "A">>, <<"A", "A", "A", "A", "C">>,
     <<"A", "A", "A", "A", "A">>, <<"A", "C", "N", "T", "A">>}

\* quality bytes of a barcode: mean 10, mean 5.4, mean 5 (the cutoff), mean 4.4
GateQuals ==
    {<<43, 43, 43, 43, 43>>, <<38, 38, 38, 39, 39>>, <<38, 38, 38, 38, 38>>,
     <<37, 37, 37, 38, 38>>}

\* the two bases after the barcode: the constant GA with no, one and two
\* mismatches
GateRegions == {<<"G", "A">>, <<"G", "C">>, <<"T", "C">>}

\* a read: barcode, the two bases after it, two more bases; every position
\* after the barcode has a quality byte of its own
GateRead(id, barcode, qual, region, rest, restQual) ==
    [id |-> id, seq |-> barcode \o region \o rest,
     qual |-> qual \o restQual]

\* the record pairs handed to the gate; the right read varies less
GateProbes ==
    {<< GateRead(<<1, 1>>, b1, q1, g1, <<"C", "T">>, <<44, 45, 50, 60>>),
        GateRead(<<1, 2>>, b2, q2, g2, <<"A", "G">>, <<46, 47, 51, 61>>) >> :
        b1 \in GateBarcodes, q1 \in GateQuals, g1 \in GateRegions,
        b2 \in {<<"C", "A", "G", "T", "C">>, <<"C", "C", "C", "C", "C">>},
        q2 \in {<<43, 43, 43, 43, 43>>, <<38, 38, 38, 39, 39>>},
        g2 \in {<<"G", "A">>, <<"G", "C">>}}

\* options under which the gate is called: double_index_cluster reaches its
\* gate only with both constant regions given
GateOptions(v) ==
    {o \in Options(v) : v = "double" => o.constant_left # <<>>}

\* readClustering of the variant
GateOf(v, read1, read2, c) ==
    CASE v = "pairs" -> GatePairs(read1, read2, c)
      [] v = "hdf" -> GateHdf(read1, read2, c)
      [] OTHER -> GateDouble(read1, read2, c)

InitGate ==
    /\ variant \in Variants
    /\ cfg \in GateOptions(variant)
    /\ input = [npairs |-> 1, feed |-> {}, surplus |-> 0]
    /\ probe \in GateProbes
    /\ answer = NoAnswer
    /\ Fresh

\* one call of readClustering on the pair
applyGate ==
    /\ pc = "start"
    /\ answer = NoAnswer
    /\ answer' = GateOf(variant, probe[1], probe[2], cfg)
    /\ pc' = "gated"
    /\ UNCHANGED <<probe, variant, cfg, input, pos, error, barcodeDict, h5file,
                   shard, tasks, counter, lock, results, opened, out1, out2,
                   outClusterCount, hist>>

NextGate == applyGate

SpecGate == InitGate /\ [][NextGate]_vars

----------------------------------------------------------------------------
(* The consensus caller applied to one cluster *)

\* most members of a cluster
MaxMembers == 2

\* left reads of one barcode: the constant GA (or, for the variant that checks
\* no constant, other bases in its place), then a payload
CallLefts ==
    LET bc == <<"A", "C", "G", "T", "A">>
        read(rest, restQual) == [seq |-> bc \o rest, qual |-> Rep(43, 5) \o restQual]
    IN  {read(<<"G", "A", "C", "T">>, <<43, 43, 43, 43>>),
         read(<<"G", "A", "C", "T">>, <<43, 43, 53, 33>>),
         read(<<"G", "A", "G", "A">>, <<43, 43, 43, 43>>),
         read(<<"G", "A", "C", "A">>, <<43, 43, 53, 43>>),
         read(<<"G", "A", "C">>, <<43, 43, 43>>),
         read(<<"G", "A", "N", "T">>, <<43, 43, 43, 43>>),
         read(<<"T", "C", "G", "A">>, <<43, 43, 43, 43>>)}

\* right reads of one barcode
CallRights ==
    LET bc == <<"C", "A", "G", "T", "C">>
        read(rest, restQual) == [seq |-> bc \o rest, qual |-> Rep(43, 5) \o restQual]
    IN  {read(<<"G", "A", "A", "G">>, <<43, 43, 43, 43>>),
         read(<<"G", "A", "A", "C">>, <<53, 44, 43, 53>>)}

CallReads ==
    {<< [id |-> <<1, 1>>, seq |-> l.seq, qual |-> l.qual],
        [id |-> <<1, 2>>, seq |-> r.seq, qual |-> r.qual] >> :
        l \in CallLefts, r \in CallRights}

\* -f: the default-like 0.9 and 0.5
CallVoteCutOffs == {<<9, 10>>, <<1, 2>>}

\* options of the runs whose clusters are called: one worker; the variants that
\* check a constant region have it configured
CallOptions(v) ==
    {[o EXCEPT !.voteCutOff = f] :
        o \in {g \in GateOptions(v) :
                  g.threads = 1 /\ (v = "hdf" => g.constant # <<>>)},
        f \in (IF v = "pairs" THEN CallVoteCutOffs ELSE VoteCutOffs)}

\* the clusters the store can hold: the payloads of one to MaxMembers record
\* pairs that the variant's gate accepted, in the order they were read
CallClusters(v, c) ==
    LET accepted == {pair \in CallReads :
                        GateOf(v, pair[1], pair[2], c).kind = "accept"}
    IN  UNION {{[i \in 1..n |-> GateOf(v, f[i][1], f[i][2], c).row] :
                   f \in [1..n -> accepted]} : n \in 1..MaxMembers}

\* what becomes of one cluster: skipped below the minimum count (by
\* errorFreeReads, or by the parent's filter in the out-of-core variant),
\* raised, rejected for its ambiguous bases, or called
errorFreeReads(v, reads, c) ==
    LET enough == EnoughReads(Len(reads), c.minReadCount)
        call == CASE v = "pairs" -> concensusPairsVote(reads, c.voteCutOff)
                  [] v = "hdf" -> concensusPairsHdf(reads)
                  [] OTHER -> concensusPairsDouble(reads)
    IN  IF ~enough
        THEN IF v = "double"
             THEN [outcome |-> "raised", call |-> Failed(ErrUnbound)]
             ELSE [outcome |-> "skipped", call |-> NoCall]
        ELSE IF call.error # "none" THEN [outcome |-> "raised", call |-> call]
        ELSE IF v = "pairs" /\ ~Retained(call, c.retainN)
             THEN [outcome |-> "rejected", call |-> call]
        ELSE [outcome |-> "called", call |-> call]

InitCall ==
    /\ variant \in Variants
    /\ cfg \in CallOptions(variant)
    /\ input = [npairs |-> 0, feed |-> {}, surplus |-> 0]
    /\ probe \in CallClusters(variant, cfg)
    /\ answer = NoAnswer
    /\ Fresh

\* one task of the pool
applyCall ==
    /\ pc = "start"
    /\ answer = NoAnswer
    /\ answer' = errorFreeReads(variant, probe, cfg)
    /\ pc' = "called"
    /\ UNCHANGED <<probe, variant, cfg, input, pos, error, barcodeDict, h5file,
                   shard, tasks, counter, lock, results, opened, out1, out2,
                   outClusterCount, hist>>

NextCall == applyCall

SpecCall == InitCall /\ [][NextCall]_vars

----------------------------------------------------------------------------
(* The output writer applied to lists of records *)

\* most records in a list handed to the writer
MaxWritten == 2

WriteKeys == <<<<"A", "C", "G", "T", "A">>, <<"A", "C", "G", "T", "C">>>>

\* the left and the right record a task makes for a cluster.  Under the lock of
\* readClusterPairs a number belongs to one cluster; the numbers of
\* read_cluster_hdf can repeat; double_index_cluster numbers the records when
\* it writes them.
WriteRecords(v) ==
    CASE v = "pairs" ->
             {<< FormatPairs(k, WriteKeys[k], 1, <<"C">>, <<43>>),
                 FormatPairs(k, WriteKeys[k], 1, <<"G">>, <<43>>) >> :
                 k \in 1..2}
      [] v = "hdf" ->
             {<< FormatHdf(n, WriteKeys[k], 1, <<"C">>, <<73>>),
                 FormatHdf(n, WriteKeys[k], 1, <<"G">>, <<73>>) >> :
                 n \in 1..2, k \in 1..2}
      [] OTHER ->
             {<< FormatDouble(0, WriteKeys[k], 1, <<"C">>, <<73>>),
                 FormatDouble(0, WriteKeys[k], 1, <<"G">>, <<73>>) >> :
                 k \in 1..2}

\* writeFile takes a list of left and a list of right records of one length;
\* the loop of double_index_cluster takes the pairs as the tasks returned them
WriteProbes(v) ==
    UNION {IF v = "double"
           THEN {[left |-> Lefts(f), right |-> Rights(f)] :
                    f \in [1..n -> WriteRecords(v)]}
           ELSE {[left |-> Lefts(f), right |-> Rights(g)] :
                    f \in [1..n -> WriteRecords(v)],
                    g \in [1..n -> WriteRecords(v)]}
           : n \in 1..MaxWritten}

WriteOptions(v) ==
    {o \in CallOptions(v) :
        o.minReadCount = 0 /\ ~o.retainN /\ o.voteCutOff = <<9, 10>>}

InitWrite ==
    /\ variant \in Variants
    /\ cfg \in WriteOptions(variant)
    /\ input = [npairs |-> 0, feed |-> {}, surplus |-> 0]
    /\ probe \in WriteProbes(variant)
    /\ answer = NoAnswer
    /\ Fresh

\* readClusterPairs.writeFile and read_cluster_hdf.writeFile on the two lists
applyWriteFile ==
    /\ variant \in {"pairs", "hdf"}
    /\ pc = "start"
    /\ LET w == writeFile(probe.left, probe.right)
       IN  /\ opened' = TRUE
           /\ out1' = w.left
           /\ out2' = w.right
           /\ outClusterCount' = Len(w.left)
           /\ pc' = IF w.error = "none" THEN "written" ELSE "aborted"
           /\ error' = w.error
    /\ UNCHANGED <<probe, answer, variant, cfg, input, pos, barcodeDict,
                   h5file, shard, tasks, counter, lock, results, hist>>

\* double_index_cluster.clustering: "for p in processes" over the pairs, each
\* written under the next output number, with no comparison
applyWriteDouble ==
    /\ variant = "double"
    /\ pc = "start"
    /\ opened' = TRUE
    /\ out1' = [k \in 1..Len(probe.left) |->
                   [probe.left[k] EXCEPT !.id[1][2] = k - 1]]
    /\ out2' = [k \in 1..Len(probe.right) |->
                   [probe.right[k] EXCEPT !.id[1][2] = k - 1]]
    /\ outClusterCount' = Len(probe.left)
    /\ pc' = "written"
    /\ UNCHANGED <<probe, answer, variant, cfg, input, pos, error, barcodeDict,
                   h5file, shard, tasks, counter, lock, results, hist>>

NextWrite == applyWriteFile \/ applyWriteDouble

SpecWrite == InitWrite /\ [][NextWrite]_vars

----------------------------------------------------------------------------
(* Properties *)

\* the clusters of the store, and their members
ClusterKeys == IF variant = "hdf" THEN DOMAIN h5file ELSE DOMAIN barcodeDict

Members(key) ==
    IF variant = "hdf" THEN Occupied(h5file[key]) ELSE barcodeDict[key]

\* the number in the identifier of an emitted record, and the key in it
RecordIndex(rec) == rec.id[1][2]

RecordKey(rec) == IF variant = "pairs" THEN rec.id[2] ELSE rec.id[1][3]

\* positions of a file that hold the record of a cluster
RecordsOf(file, key) == {i \in 1..Len(file) : RecordKey(file[i]) = key}

\* the consensus of a cluster can be called and is kept
Callable(key) ==
    CASE variant = "pairs" ->
             LET call == concensusPairsVote(Members(key), cfg.voteCutOff)
             IN  call.error = "none" /\ Retained(call, cfg.retainN)
      [] variant = "hdf" -> concensusPairsHdf(Members(key)).error = "none"
      [] OTHER -> concensusPairsDouble(Members(key)).error = "none"

\* C1: in the variants whose workers number their records from the shared
\* counter, once the pool has finished and the run is done, the emitted record
\* pairs carry pairwise distinct indices and there is one for every consensus
\* that a task called and kept.
C1_DistinctIndices ==
    (variant \in {"pairs", "hdf"} /\ pc = "done") =>
        /\ \A i, j \in 1..Len(hist.emitted) :
              i # j => RecordIndex(hist.emitted[i][1])
                           # RecordIndex(hist.emitted[j][1])
        /\ Len(hist.emitted) = hist.called

\* C2: when a run of the out-of-core variant is done, each output file holds
\* exactly one record for every cluster, of every prefix group, whose family
\* size exceeds minReadCount, and outClusterCount is the number of records in
\* each file.
C2_ShardsKept ==
    (variant = "hdf" /\ pc = "done") =>
        LET qualifying == {b \in DOMAIN h5file :
                              family_size(h5file, b) > cfg.minReadCount}
        IN  /\ \A b \in qualifying :
                  /\ Cardinality(RecordsOf(out1, b)) = 1
                  /\ Cardinality(RecordsOf(out2, b)) = 1
            /\ Len(out1) = Cardinality(qualifying)
            /\ Len(out2) = Cardinality(qualifying)
            /\ outClusterCount = Len(out1)
            /\ outClusterCount = Len(out2)

\* C3: when a run has ended, done or stopped at a cluster it had to skip, a
\* cluster of exactly minReadCount members has no record in the output files,
\* and a cluster of minReadCount + 1 members whose consensus can be called and
\* is kept has exactly one record in each.
C3_MinCountBoundary ==
    (pc = "done" \/ (pc = "aborted" /\ error = ErrUnbound)) =>
        \A k \in ClusterKeys :
            /\ Len(Members(k)) = cfg.minReadCount =>
                  RecordsOf(out1, k) = {} /\ RecordsOf(out2, k) = {}
            /\ (Len(Members(k)) = cfg.minReadCount + 1 /\ Callable(k)) =>
                  /\ Cardinality(RecordsOf(out1, k)) = 1
                  /\ Cardinality(RecordsOf(out2, k)) = 1

\* C4: a cluster with no more than minReadCount members is skipped without an
\* error: its task does not raise, and the run is never stopped by it.
C4_SkipIsNoError ==
    /\ error # ErrUnbound
    /\ \A t \in 1..Len(tasks) :
          Len(Members(tasks[t].key)) <= cfg.minReadCount
              => tasks[t].pc # "raised"

\* C5: once a pair whose left and right identifiers differ before the first
\* space has been read, the run has stopped at that pair with the pairing
\* error, no output file has been opened and nothing has been written.
C5_MismatchHalts ==
    hist.mismatch # 0 =>
        /\ pc = "aborted"
        /\ error = ErrPairing
        /\ pos = hist.mismatch
        /\ ~opened
        /\ out1 = <<>>
        /\ out2 = <<>>

\* a mismatch at the second pair, after the first pair was stored
C5_Witness ==
    /\ hist.mismatch = 2
    /\ pc = "aborted"
    /\ ClusterKeys # {}

\* C6: when one input file holds more records than the other, the run does
\* not end normally at the end of the shorter file: no cluster is handed to a
\* task, no consensus is computed and the run is never done.
C6_UnequalCountsFail ==
    input.surplus > 0 => (pc # "done" /\ tasks = <<>> /\ hist.computed = 0)

\* C7: however many accepted pairs carry one barcode, storing a pair never
\* stops the run for want of rows in the barcode's table.
C7_TableGrows == error # ErrTableFull

\* C8: a run that is done has no task that raised an error.
C8_TaskErrorAborts ==
    pc = "done" => \A t \in 1..Len(tasks) : tasks[t].pc # "raised"

\* number of clusters above the minimum count in the prefix groups before the
\* n-th
QualifyingBefore(n) ==
    Cardinality({b \in DOMAIN h5file :
        /\ family_size(h5file, b) > cfg.minReadCount
        /\ \E i \in 1..(n - 1) :
              i <= Len(ShardList) /\ Take(b, prefix_length) = ShardList[i]})

\* C9: a task exists, and a consensus has been computed, only after every pair
\* of the input has been read and gated; in the out-of-core variant the tasks
\* of a prefix group exist only when every cluster above the minimum count of
\* the groups before it has been called and written.
C9_PhaseOrdering ==
    /\ (tasks # <<>> \/ hist.computed > 0) => (pos = input.npairs /\ pc # "read")
    /\ (variant = "hdf" /\ pc \in {"pool", "shard"}) =>
          /\ \A t \in 1..Len(tasks) :
                Take(tasks[t].key, prefix_length) = ShardList[shard]
          /\ outClusterCount = QualifyingBefore(shard)
          /\ Len(hist.emitted)
                = outClusterCount
                    + Cardinality({t \in 1..Len(tasks) : tasks[t].pc = "done"})

\* the second prefix group is being processed, after two or more pairs were read
C9_Witness ==
    /\ variant = "hdf"
    /\ shard = 2
    /\ pos >= 2
    /\ \E t \in 1..Len(tasks) : tasks[t].pc = "done"

\* the members of a cluster have one length on the left and one on the right
UniformLengths(key) ==
    \A i, j \in 1..Len(Members(key)) :
        /\ Len(Members(key)[i].seqLeft) = Len(Members(key)[j].seqLeft)
        /\ Len(Members(key)[i].seqRight) = Len(Members(key)[j].seqRight)

\* C10: every emitted record pair of a cluster whose members have one length
\* per side has, on each side, a sequence as long as its quality line and as
\* long as the members' sequences of that side.
C10_ConsensusLengths ==
    \A i \in 1..Len(hist.emitted) :
        LET left == hist.emitted[i][1]
            right == hist.emitted[i][2]
            key == RecordKey(left)
        IN  UniformLengths(key) =>
                /\ Len(left.seq) = Len(left.qual)
                /\ Len(right.seq) = Len(right.qual)
                /\ \A m \in 1..Len(Members(key)) :
                      /\ Len(left.seq) = Len(Members(key)[m].seqLeft)
                      /\ Len(right.seq) = Len(Members(key)[m].seqRight)

\* the gate has been applied to the pair and took it
GateAccepted == pc = "gated" /\ answer.kind = "accept"

\* characters the barcode and the constant region take at the front of a read:
\* the left read carries them in every variant, the right read in the
\* double-index variant only
FrontLeft ==
    cfg.idxBase + (CASE variant = "pairs" -> 0
                     [] variant = "hdf" -> Len(cfg.constant)
                     [] OTHER -> Len(cfg.constant_left))

FrontRight ==
    IF variant = "double" THEN cfg.idxBase + Len(cfg.constant_right) ELSE 0

\* C12: the payload stored for an accepted pair is, on each side, the read's
\* sequence and the read's quality line without the characters of the barcode
\* and the constant region, so the stored sequence and quality of a side have
\* the same length and stay aligned.
C12_PayloadTrimmed ==
    GateAccepted =>
        /\ answer.row.seqLeft = Drop(probe[1].seq, FrontLeft)
        /\ answer.row.qualLeft = Drop(probe[1].qual, FrontLeft)
        /\ answer.row.seqRight = Drop(probe[2].seq, FrontRight)
        /\ answer.row.qualRight = Drop(probe[2].qual, FrontRight)
        /\ Len(answer.row.seqLeft) = Len(answer.row.qualLeft)
        /\ Len(answer.row.seqRight) = Len(answer.row.qualRight)

\* the barcodes the gate looks at: the left one, and in the double-index
\* variant the right one too
CheckedSides == IF variant = "double" THEN {1, 2} ELSE {1}

BarcodeOf(side) == Take(probe[side].seq, cfg.idxBase)

\* every quality value of the checked barcodes is above the cutoff, so the mean
\* is above it however it is rounded
ClearQuality ==
    \A side \in CheckedSides : \A i \in 1..cfg.idxBase :
        probe[side].qual[i] - QualOffset > cfg.barcodeCutOff

\* neither read has an unread base
NoUnreadBase == ~In("N", probe[1].seq) /\ ~In("N", probe[2].seq)

\* the constant the variant expects on a side, and the bases found in its place
ExpectedConstant(side) ==
    CASE variant = "pairs" -> <<>>
      [] variant = "hdf" -> cfg.constant
      [] side = 1 -> cfg.constant_left
      [] OTHER -> cfg.constant_right

ConstantSlice(side) ==
    Slice(probe[side].seq, cfg.idxBase,
          cfg.idxBase + Len(ExpectedConstant(side)))

\* the variant has a constant region configured (the in-memory single-index
\* variant has none to configure), and the checked reads carry it unchanged
ExactConstant ==
    \A side \in CheckedSides :
        variant # "pairs" =>
            /\ ExpectedConstant(side) # <<>>
            /\ ConstantSlice(side) = ExpectedConstant(side)

\* C13: a pair whose barcode holds five equal bases in a row is rejected
\* whatever its quality, and a pair whose barcodes hold no such run, with clear
\* quality, no unread base and the constant region intact, is accepted.
C13_HomopolymerRun ==
    pc = "gated" =>
        /\ (\E side \in CheckedSides : HasHomopolymer(BarcodeOf(side), 5))
              => answer.kind = "reject"
        /\ (/\ \A side \in CheckedSides : ~HasHomopolymer(BarcodeOf(side), 5)
            /\ ClearQuality
            /\ NoUnreadBase
            /\ ExactConstant)
              => answer.kind = "accept"

\* the sum of a barcode's quality values (bytes minus 33); the mean is this sum
\* over idxBase
QualSum(side) ==
    SumSeq(Take(probe[side].qual, cfg.idxBase)) - QualOffset * cfg.idxBase

\* C14: a pair is rejected when the mean quality of a checked barcode is at or
\* below the cutoff, and a pair whose checked barcodes all have a mean strictly
\* above the cutoff (5.4 against 5 as well as 10 against 5), with no run of
\* four equal bases, no unread base and the constant region intact, is
\* accepted.
C14_MeanQualityCutoff ==
    pc = "gated" =>
        /\ (\E side \in CheckedSides :
                QualSum(side) <= cfg.barcodeCutOff * cfg.idxBase)
              => answer.kind = "reject"
        /\ (/\ \A side \in CheckedSides :
                  /\ QualSum(side) > cfg.barcodeCutOff * cfg.idxBase
                  /\ ~HasHomopolymer(BarcodeOf(side), 4)
            /\ NoUnreadBase
            /\ ExactConstant)
              => answer.kind = "accept"

\* the checks of the gate that come before the constant region, as the variant
\* makes them
BarcodeChecksPass ==
    /\ \A side \in CheckedSides :
          /\ ~In("N", BarcodeOf(side))
          /\ BarcodeQualMean(probe[side].qual, cfg.idxBase) > cfg.barcodeCutOff
          /\ ~HasHomopolymer(BarcodeOf(side), 5)

\* C15: with a constant region configured, a pair that passes the barcode
\* checks is accepted exactly when, on every checked side, the bases in the
\* place of the constant differ from it in at most one position.
C15_OneMismatchTolerated ==
    (/\ pc = "gated"
     /\ variant \in {"hdf", "double"}
     /\ \A side \in CheckedSides : ExpectedConstant(side) # <<>>
     /\ BarcodeChecksPass) =>
        (answer.kind = "accept" <=>
            \A side \in CheckedSides :
                Mismatches(ExpectedConstant(side), ConstantSlice(side)) <= 1)

\* C16: in a run with no constant region configured the constant check does
\* nothing: the run is never stopped by a division by zero or by an error of
\* the distance function.
C16_EmptyConstantSkipped ==
    cfg.constant = <<>> =>
        error \notin {ErrZeroDivision, ErrHammingType, ErrHammingLength}

\* a task has handled the cluster, which is above the minimum count
ClusterHandled ==
    pc = "called" /\ EnoughReads(Len(probe), cfg.minReadCount)

\* the members of the cluster differ in sequence length on one side
LengthsDiffer ==
    \E i, j \in 1..Len(probe) :
        \/ Len(probe[i].seqLeft) # Len(probe[j].seqLeft)
        \/ Len(probe[i].seqRight) # Len(probe[j].seqRight)

\* C11: a cluster whose members differ in sequence length on one side is not
\* called: the task that handles it raises an error.
C11_UnequalLengthsFail ==
    (ClusterHandled /\ LengthsDiffer) => answer.outcome = "raised"

\* positions of the lists handed to the writer at which the identifiers of
\* the left and the right record differ before the first space
Diverging ==
    {k \in 1..Len(probe.left) :
        FirstToken(probe.left[k].id) # FirstToken(probe.right[k].id)}

\* an output record without the number the writer may have put in
Unnumbered(rec) ==
    IF variant = "double" THEN [rec EXCEPT !.id[1][2] = 0] ELSE rec

\* C17: after the writer has run, both files hold the same number of records;
\* the k-th records of the two files have the same identifier before the first
\* space, belong to the same cluster and are the k-th records handed in; a
\* pair of records whose identifiers differ is not written, and the write
\* fails at it.
C17_WriterKeepsPairs ==
    pc \in {"written", "aborted"} =>
        /\ Len(out1) = Len(out2)
        /\ \A k \in 1..Len(out1) :
              /\ FirstToken(out1[k].id) = FirstToken(out2[k].id)
              /\ RecordKey(out1[k]) = RecordKey(out2[k])
              /\ Unnumbered(out1[k]) = probe.left[k]
              /\ Unnumbered(out2[k]) = probe.right[k]
        /\ Diverging = {} => (pc = "written" /\ Len(out1) = Len(probe.left))
        /\ Diverging # {} =>
              /\ pc = "aborted"
              /\ error = ErrOrder
              /\ \A k \in Diverging : Len(out1) < k

\* the second pair handed in diverges: the first is written, the write fails
C17_Witness ==
    /\ pc = "aborted"
    /\ Diverging = {2}
    /\ Len(out1) = 1
    /\ Len(out2) = 1

\* the members of the called cluster that carry base b at position p of a side
Carriers(seqField, p, b) ==
    {i \in 1..Len(probe) : probe[i][seqField][p] = b}

\* the sum of the quality bytes the members in S carry at position p of a side
QualTotal(qualField, p, S) ==
    LET RECURSIVE Sum(_)
        Sum(T) == IF T = {} THEN 0
                  ELSE LET i == CHOOSE j \in T : TRUE
                       IN  probe[i][qualField][p] + Sum(T \ {i})
    IN  Sum(S)

\* q is the integer part of the mean of the quality bytes of the members in S
MeanByte(q, qualField, p, S) ==
    /\ Cardinality(S) * q <= QualTotal(qualField, p, S)
    /\ QualTotal(qualField, p, S) < Cardinality(S) * (q + 1)

\* the largest number of members that carry one base at position p of a side
TopCount(seqField, p) ==
    SetMax({Cardinality(Carriers(seqField, p, probe[i][seqField][p])) :
               i \in 1..Len(probe)})

\* the plurality call of one column, as the vote threshold prescribes it
PluralityColumn(seqField, qualField, p, base, q) ==
    LET top == TopCount(seqField, p)
        carriers == Carriers(seqField, p, base)
    IN  /\ IF top * cfg.voteCutOff[2] > cfg.voteCutOff[1] * Len(probe)
           THEN Cardinality(carriers) = top
           ELSE base = "N"
        /\ IF carriers = {} THEN q = QualOffset
           ELSE MeanByte(q, qualField, p, carriers)
        /\ top = Len(probe) =>
              /\ base = probe[1][seqField][p]
              /\ MeanByte(q, qualField, p, 1..Len(probe))

PluralityCalled ==
    /\ variant = "pairs"
    /\ pc = "called"
    /\ answer.outcome \in {"called", "rejected"}

BayesCalled ==
    /\ variant = "hdf"
    /\ pc = "called"
    /\ answer.outcome = "called"

\* all members carry one of A, C, T, G at position p of a side
AgreedCanonical(seqField, p) ==
    /\ TopCount(seqField, p) = Len(probe)
    /\ \E g \in 1..4 : probe[1][seqField][p] = acceptable_bases[g]

\* the Bayesian call of one column
BayesColumn(seqField, p, base, q) ==
    /\ AgreedCanonical(seqField, p) =>
          (base = probe[1][seqField][p] /\ q = maxQ)
    /\ q \in minQ..maxQ

PluralityOutcome ==
    /\ variant = "pairs"
    /\ pc = "called"
    /\ EnoughReads(Len(probe), cfg.minReadCount)
    /\ answer.outcome \in {"called", "rejected"}

AmbiguousCall ==
    In("N", answer.call.sequenceLeft) \/ In("N", answer.call.sequenceRight)

\* C20: a cluster of the plurality variant with more than minReadCount
\* members is rejected exactly when its left or right consensus contains N and
\* retainN is off, and is called in every other case; so with retainN on
\* every such cluster is called, and with retainN off no called consensus
\* contains N.
C20_RejectedOnlyForN ==
    PluralityOutcome =>
        /\ answer.outcome = "rejected" <=> (AmbiguousCall /\ ~cfg.retainN)
        /\ cfg.retainN => answer.outcome = "called"
        /\ (~cfg.retainN /\ answer.outcome = "called") => ~AmbiguousCall

\* the number a record carries: the counter value it was formatted from
RecordNumber(rec) == rec[1].id[1][2]

\* workers of the lock-based variant that have incremented the counter and not
\* yet appended their record
BetweenIncrementAndAppend ==
    {t \in 1..Len(tasks) : tasks[t].pc \in {"release", "append"}}

\* C21: in the lock-based variant, while a worker is between its increment of
\* the counter and its append to results, no other worker has incremented the
\* counter or appended (the counter still has the worker's number and results
\* holds the records of all smaller numbers), so the records in results are in
\* the order of their numbers.
C21_AppendInCriticalSection ==
    variant = "pairs" =>
        /\ \A t \in BetweenIncrementAndAppend :
              /\ counter = RecordNumber(tasks[t].rec)
              /\ Len(results) = counter - 1
        /\ \A i, j \in 1..Len(results) :
              i < j => RecordNumber(results[i]) < RecordNumber(results[j])

====
